---- MODULE Spec2Model ----
(***************************************************************************)
(* Health tracker: the entries table of database.py (save, update, delete, *)
(* CSV export and import) and the pure functions of analysis.py.           *)
(*                                                                         *)
(* Conventions                                                             *)
(*   - a date is a whole number of days counted from a Monday (day 0);     *)
(*   - the `date` column is TEXT: a stored date is a text, either the ISO  *)
(*     rendering of a day, or a text pandas cannot parse as a date         *)
(*     ("garbage", "nan");                                                 *)
(*   - None stands for Python None / SQL NULL / NaN / NaT;                 *)
(*   - weights are whole pounds and calories whole kcal, so every mean and *)
(*     quotient below is an exact rational, kept as numerator/denominator. *)
(***************************************************************************)
EXTENDS Integers, Sequences, FiniteSets, TLC

VARIABLES entries, seq, file, exported, last, df, window, weekly_change, result

vars == <<entries, seq, file, exported, last, df, window, weekly_change, result>>

storeVars == <<entries, seq, file, exported, last>>

analysisVars == <<df, window, weekly_change, result>>

(***************************************************************************)
(* Bounds of the model                                                     *)
(***************************************************************************)
MaxDay == 1

MaxId == 2

MaxRows == 2

MaxSeries == 2

MaxLen == 3

MaxSpan == 14

MaxNear == 2

MaxGap == 4

MaxWindow == 7

MaxChange == 1100

MaxWeek == 3

None == -1

Users == {"alice", "bob"}

Weights == {150, 151}

CalorieValues == {0}

Days == 0..MaxDay

(***************************************************************************)
(* Date texts                                                              *)
(***************************************************************************)
IsoText(d) == [kind |-> "iso", day |-> d]

GarbageText == [kind |-> "garbage", day |-> 0]

NanText == [kind |-> "nan", day |-> 0]

EmptyCell == [kind |-> "empty", day |-> 0]

IsoTexts == {IsoText(d) : d \in Days}

\* pd.to_datetime(text, errors="coerce"): the day, or NaT
to_datetime(t) == IF t.kind = "iso" THEN t.day ELSE None

\* SQLite's text comparison of two date texts, as ORDER BY date ASC uses it:
\* digits sort before letters, "garbage" before "nan"
TextRank(t) ==
    CASE t.kind = "iso" -> t.day
      [] t.kind = "empty" -> -1
      [] t.kind = "garbage" -> MaxDay + 1
      [] OTHER -> MaxDay + 2

(***************************************************************************)
(* The entries table: UNIQUE(username, date), id AUTOINCREMENT             *)
(***************************************************************************)
Conflicts(table, username, date) ==
    {r \in table : r.username = username /\ r.date = date}

\* Mutant: a plain INSERT into a table without the UNIQUE constraint
InsertNoConstraint(table, id, username, date, weight, calories) ==
    table \cup {[id |-> id, username |-> username, date |-> date,
                 weight_lbs |-> weight, calories |-> calories]}

\* Mutant: INSERT OR IGNORE, the row already stored wins
InsertOrIgnore(table, id, username, date, weight, calories) ==
    IF Conflicts(table, username, date) # {} THEN table
    ELSE table \cup {[id |-> id, username |-> username, date |-> date,
                      weight_lbs |-> weight, calories |-> calories]}

\* INSERT OR REPLACE INTO entries (username, date, weight_lbs, calories)
InsertOrReplace(table, id, username, date, weight, calories) ==
    (table \ Conflicts(table, username, date))
        \cup {[id |-> id, username |-> username, date |-> date,
               weight_lbs |-> weight, calories |-> calories]}

NoCall == [op |-> "none", username |-> "", id |-> 0, date |-> EmptyCell,
           weight |-> None, calories |-> None, rows |-> <<>>,
           existed |-> FALSE, raised |-> FALSE]

\* save_entry(username, date, weight, calories)
save_entry(username, date, weight, calories) ==
    /\ seq < MaxId
    /\ entries' = InsertOrReplace(entries, seq + 1, username, date, weight, calories)
    /\ seq' = seq + 1
    /\ last' = [NoCall EXCEPT !.op = "save", !.username = username, !.date = date,
                              !.weight = weight, !.calories = calories,
                              !.existed = (Conflicts(entries, username, date) # {})]
    /\ UNCHANGED <<file, exported>>

\* delete_entry(entry_id)
delete_entry(entry_id) ==
    /\ entries' = {r \in entries : r.id # entry_id}
    /\ last' = [NoCall EXCEPT !.op = "delete",
                              !.existed = (\E r \in entries : r.id = entry_id)]
    /\ UNCHANGED <<seq, file, exported>>

\* The UPDATE statement of update_entry breaks UNIQUE(username, date)
UpdateViolatesUnique(table, entry_id, date) ==
    \E r \in table : \E o \in table :
        /\ r.id = entry_id
        /\ o.id # entry_id
        /\ o.username = r.username
        /\ o.date = date

UpdateRows(table, entry_id, date, weight, calories) ==
    {IF r.id = entry_id
        THEN [r EXCEPT !.date = date, !.weight_lbs = weight, !.calories = calories]
        ELSE r : r \in table}

\* Mutant: UPDATE OR REPLACE, the row in the way is deleted and nothing is raised
update_or_replace(entry_id, date, weight, calories) ==
    /\ entries' = UpdateRows({o \in entries :
                                 ~(/\ o.id # entry_id
                                   /\ o.date = date
                                   /\ \E r \in entries :
                                          r.id = entry_id /\ r.username = o.username)},
                             entry_id, date, weight, calories)
    /\ last' = [NoCall EXCEPT !.op = "update", !.id = entry_id, !.date = date,
                              !.existed = (\E r \in entries : r.id = entry_id)]
    /\ UNCHANGED <<seq, file, exported>>

\* update_entry(entry_id, date, weight, calories): on a constraint violation
\* conn.execute raises sqlite3.IntegrityError, commit is never reached
update_entry(entry_id, date, weight, calories) ==
    /\ entries' = IF UpdateViolatesUnique(entries, entry_id, date)
                     THEN entries
                     ELSE UpdateRows(entries, entry_id, date, weight, calories)
    /\ last' = [NoCall EXCEPT !.op = "update", !.id = entry_id, !.date = date,
                              !.existed = (\E r \in entries : r.id = entry_id),
                              !.raised = UpdateViolatesUnique(entries, entry_id, date)]
    /\ UNCHANGED <<seq, file, exported>>

(***************************************************************************)
(* CSV export and import                                                   *)
(***************************************************************************)
RECURSIVE OrderByDate(_)
\* ORDER BY date ASC over a set of rows of one user (their date texts differ)
OrderByDate(rows) ==
    IF rows = {} THEN <<>>
    ELSE LET first == CHOOSE r \in rows :
                          \A o \in rows : TextRank(r.date) <= TextRank(o.date)
         IN <<first>> \o OrderByDate(rows \ {first})

\* get_all_entries(username): the user's rows by date text, date column parsed
get_all_entries(table, username) ==
    LET rows == OrderByDate({r \in table : r.username = username})
    IN [i \in 1..Len(rows) |-> [rows[i] EXCEPT !.date = to_datetime(rows[i].date)]]

\* DataFrame.to_csv of one date: NaT is written as an empty cell
DateCell(d) == IF d = None THEN EmptyCell ELSE IsoText(d)

\* Mutant: to_csv(na_rep="0"), a missing calories value is written as 0
to_csv_zero(frame) ==
    [i \in 1..Len(frame) |-> [date |-> DateCell(frame[i].date),
                              weight_lbs |-> frame[i].weight_lbs,
                              calories |-> IF frame[i].calories = None
                                              THEN 0 ELSE frame[i].calories]]

\* df.to_csv(filepath, index=False); the id and username columns are written
\* too, import_csv never reads them
to_csv(frame) ==
    [i \in 1..Len(frame) |-> [date |-> DateCell(frame[i].date),
                              weight_lbs |-> frame[i].weight_lbs,
                              calories |-> frame[i].calories]]

\* export_csv(filepath, username)
export_csv(username) ==
    /\ file' = to_csv(get_all_entries(entries, username))
    /\ exported' = [username |-> username,
                    series |-> get_all_entries(entries, username)]
    /\ last' = [NoCall EXCEPT !.op = "export", !.username = username]
    /\ UNCHANGED <<entries, seq>>

\* str(row.get("date", "")): read_csv reads an empty cell as NaN, str(NaN) = "nan"
DateOfCell(cell) == IF cell.kind = "empty" THEN NanText ELSE cell

RECURSIVE ImportRows(_, _, _, _)
\* the for loop of import_csv over rows[1..], ids handed out from id + 1
ImportRows(table, id, username, rows) ==
    IF rows = <<>> THEN table
    ELSE ImportRows(InsertOrReplace(table, id + 1, username,
                                    DateOfCell(Head(rows).date),
                                    Head(rows).weight_lbs, Head(rows).calories),
                    id + 1, username, Tail(rows))

\* import_csv(filepath, username)
import_csv(rows, username) ==
    /\ entries' = ImportRows(entries, seq, username, rows)
    /\ seq' = seq + Len(rows)
    /\ last' = [NoCall EXCEPT !.op = "import", !.username = username, !.rows = rows]
    /\ UNCHANGED <<file, exported>>

\* Rows of an uploaded file: a date pandas can parse or one it cannot
UploadRows ==
    [date : IsoTexts \cup {GarbageText},
     weight_lbs : {150},
     calories : CalorieValues \cup {None}]

UploadFiles(n) == [1..n -> UploadRows]

StoreInit ==
    /\ entries = {}
    /\ seq = 0
    /\ file = <<>>
    /\ exported = [username |-> "", series |-> <<>>]
    /\ last = NoCall

\* A function's "no value" (None) and a value it returns
Nothing == [has |-> FALSE, v |-> 0]

Some(x) == [has |-> TRUE, v |-> x]

NoResult == [fn |-> "none", value |-> Nothing]

AnalysisIdle ==
    /\ df = <<>>
    /\ window = 1
    /\ weekly_change = Nothing
    /\ result = NoResult

Init == StoreInit /\ AnalysisIdle

SaveEntry ==
    \E u \in Users : \E d \in Days : \E w \in Weights : \E c \in CalorieValues \cup {None} :
        save_entry(u, IsoText(d), w, c) /\ UNCHANGED analysisVars

\* Every id the table can have handed out
CallIds == 1..MaxId

DeleteEntry ==
    \E id \in CallIds : delete_entry(id) /\ UNCHANGED analysisVars

UpdateEntry ==
    \E id \in CallIds : \E d \in Days : \E w \in Weights : \E c \in CalorieValues \cup {None} :
        update_entry(id, IsoText(d), w, c) /\ UNCHANGED analysisVars

ImportCsv ==
    \E n \in 0..MaxRows :
        /\ seq + n <= MaxId
        /\ \E u \in Users : \E f \in UploadFiles(n) :
               import_csv(f, u) /\ UNCHANGED analysisVars

Next == SaveEntry \/ DeleteEntry \/ UpdateEntry \/ ImportCsv

Spec == Init /\ [][Next]_vars

(***************************************************************************)
(* Properties of the entries table                                         *)
(***************************************************************************)
\* C1: in every reachable state the table holds at most one entry per
\* (user, date) pair, whatever calls were made and whether they failed.
OneEntryPerUserAndDate ==
    \A r1 \in entries : \A r2 \in entries :
        (r1.username = r2.username /\ r1.date = r2.date) => r1 = r2

\* C1 witness: a file naming the same date twice was imported and the user
\* has a single entry on that date.
ImportedDuplicateDate ==
    /\ last.op = "import"
    /\ Len(last.rows) = 2
    /\ last.rows[1].date = last.rows[2].date
    /\ last.rows[1].calories # last.rows[2].calories
    /\ Cardinality(Conflicts(entries, last.username, DateOfCell(last.rows[1].date))) = 1

\* What an entry holds, without its id
Content(r) == [username |-> r.username, date |-> r.date,
               weight_lbs |-> r.weight_lbs, calories |-> r.calories]

ContentExcept(table, username, date) ==
    {Content(r) : r \in table \ Conflicts(table, username, date)}

\* C2: save_entry is an upsert. After the call there is exactly one entry at
\* (user, date), it carries the given weight and the given calories (absent
\* stays absent), and every entry at another (user, date) is as it was.
SaveEntryIsUpsert ==
    [][last'.op = "save" =>
          /\ Cardinality(Conflicts(entries', last'.username, last'.date)) = 1
          /\ \A r \in Conflicts(entries', last'.username, last'.date) :
                 r.weight_lbs = last'.weight /\ r.calories = last'.calories
          /\ ContentExcept(entries', last'.username, last'.date)
                 = ContentExcept(entries, last'.username, last'.date)]_vars

\* C2 witness: an entry that existed was saved again, with absent calories,
\* and now holds absent calories.
SavedOverExisting ==
    /\ last.op = "save"
    /\ last.existed
    /\ last.calories = None
    /\ \E r \in entries : r.id = seq /\ r.date = last.date /\ r.calories = None

\* The update named by the call record would put the entry on a date that
\* another entry of the same user holds
MovesOntoTakenDate(table, call) ==
    \E r \in table : \E o \in table :
        /\ r.id = call.id
        /\ o # r
        /\ o.username = r.username
        /\ o.date = call.date

\* C10: an update that would move an entry onto a date another entry of the
\* same user holds raises, and the table is left exactly as it was.
UpdateOntoTakenDateRaises ==
    [][(last'.op = "update" /\ MovesOntoTakenDate(entries, last')) =>
          (last'.raised /\ entries' = entries)]_vars

\* C10 witness: an update raised with two entries of one user in the table.
UpdateRaised ==
    /\ last.op = "update"
    /\ last.raised
    /\ \E r \in entries : \E o \in entries :
          r.id = last.id /\ o # r /\ o.username = r.username /\ o.date = last.date

\* The rows of a file whose date pandas can parse
ParsableRows(rows) ==
    SelectSeq(rows, LAMBDA row : to_datetime(DateOfCell(row.date)) # None)

\* C4 (as claimed): an import skips every row whose date cannot be parsed and
\* upserts every other row, so the table ends as if only the parsable rows
\* had been imported.
ImportSkipsUnparsableDates ==
    [][last'.op = "import" =>
          {Content(r) : r \in entries'}
              = {Content(r) : r \in ImportRows(entries, seq, last'.username,
                                              ParsableRows(last'.rows))}]_vars

(***************************************************************************)
(* CSV round trip: a table as a first import leaves it, then exports and    *)
(* imports of the exported file                                            *)
(***************************************************************************)
CsvRows ==
    [date : IsoTexts \cup {GarbageText, EmptyCell},
     weight_lbs : Weights \cup {None},
     calories : CalorieValues \cup {None}]

\* The state import_csv leaves when called on the empty table
CsvInit ==
    /\ \E n \in 0..MaxSeries : \E f \in [1..n -> CsvRows] : \E u \in Users :
          /\ entries = ImportRows({}, 0, u, f)
          /\ seq = n
          /\ last = [NoCall EXCEPT !.op = "import", !.username = u, !.rows = f]
    /\ file = <<>>
    /\ exported = [username |-> "", series |-> <<>>]
    /\ AnalysisIdle

ExportCsv ==
    \E u \in Users : export_csv(u) /\ UNCHANGED analysisVars

\* The file downloaded last is uploaded again
ReimportCsv ==
    \E u \in Users :
        /\ last.op # "import"
        /\ seq <= MaxSeries
        /\ import_csv(file, u)
        /\ UNCHANGED analysisVars

CsvNext == ExportCsv \/ ReimportCsv

SpecCsv == CsvInit /\ [][CsvNext]_vars

\* The (date, weight, calories) rows of a series, as a set
SeriesRows(series) ==
    {[date |-> series[i].date, weight_lbs |-> series[i].weight_lbs,
      calories |-> series[i].calories] : i \in 1..Len(series)}

NoDuplicateDates(series) ==
    \A i \in 1..Len(series) : \A j \in 1..Len(series) :
        i # j => series[i].date # series[j].date

\* The call is an import, for the user who exported, of the exported file of a
\* non-empty series without duplicate dates, into a table that holds nothing
\* of that user beyond the exported rows
ReimportOf(table, call) ==
    /\ call.op = "import"
    /\ call.rows = file
    /\ call.username = exported.username
    /\ exported.series # <<>>
    /\ NoDuplicateDates(exported.series)
    /\ SeriesRows(get_all_entries(table, exported.username))
           \subseteq SeriesRows(exported.series)

PerPound == 10000

\* 0.01 lb, the step of round(weekly_change, 2)
Hundredth == 100

\* 0.1 lb, the threshold of get_trend_direction
Threshold == 1000

\* kcal taken to make one pound
KcalPerPound == 3500

DaysPerWeek == 7

\* min_periods of the rolling window
MinPeriods == 1

\* the fewest calorie-bearing entries calc_calorie_vs_weight_data accepts
MinEntries == 14

\* the fewest weekly rows calc_calorie_vs_weight_data accepts
MinWeeks == 2

\* NaN as a mean
NullMean == [num |-> 0, den |-> 0]

\* round(): num/den (den > 0) to the nearest integer, a tie to the even one
RoundHalfEven(num, den) ==
    LET q == num \div den
        r == num - q * den
    IN IF 2 * r < den THEN q
       ELSE IF 2 * r > den THEN q + 1
       ELSE IF q % 2 = 0 THEN q ELSE q + 1

RECURSIVE InsertByDate(_, _)
\* one step of the insertion sort numpy applies to a short array: e goes
\* behind every entry whose date is not later
InsertByDate(sorted, e) ==
    IF sorted = <<>> THEN <<e>>
    ELSE IF Head(sorted).date <= e.date
            THEN <<Head(sorted)>> \o InsertByDate(Tail(sorted), e)
            ELSE <<e>> \o sorted

\* Mutant: the frame is used in the order given
unsorted(frame) == frame

RECURSIVE sort_values(_)
\* df.sort_values("date")
sort_values(frame) ==
    IF frame = <<>> THEN <<>>
    ELSE InsertByDate(sort_values(SubSeq(frame, 1, Len(frame) - 1)),
                      frame[Len(frame)])

\* calc_weekly_weight_change(df)
calc_weekly_weight_change(frame) ==
    IF Len(frame) < 2 THEN Nothing
    ELSE LET sorted == sort_values(frame)
             total_days == sorted[Len(sorted)].date - sorted[1].date
             total_change == sorted[Len(sorted)].weight_lbs - sorted[1].weight_lbs
         IN IF total_days = 0 THEN Some(0)
            ELSE Some(Hundredth * RoundHalfEven(total_change * DaysPerWeek * 100,
                                                total_days))

\* df.dropna(subset=["calories"])
dropna(frame) == SelectSeq(frame, LAMBDA e : e.calories # None)

RECURSIVE SumCalories(_)
SumCalories(frame) ==
    IF frame = <<>> THEN 0 ELSE Head(frame).calories + SumCalories(Tail(frame))

RECURSIVE SumWeight(_)
SumWeight(frame) ==
    IF frame = <<>> THEN 0 ELSE Head(frame).weight_lbs + SumWeight(Tail(frame))

\* avg_calories - weekly_change * 3500 / 7, rounded, with avg_calories =
\* sum / n and weekly counted in 1/10000 lb
Maintenance(sum, n, weekly) ==
    RoundHalfEven(sum * DaysPerWeek * PerPound - weekly * KcalPerPound * n,
                  n * DaysPerWeek * PerPound)

\* Mutant: the weekly change is taken over the calorie-bearing entries only
estimate_maintenance_filtered(frame) ==
    LET df_cal == dropna(frame)
        weekly == calc_weekly_weight_change(df_cal)
    IN IF Len(df_cal) < 2 \/ ~weekly.has THEN Nothing
       ELSE Some(Maintenance(SumCalories(df_cal), Len(df_cal), weekly.v))

\* estimate_maintenance_calories(df)
estimate_maintenance_calories(frame) ==
    LET df_cal == dropna(frame)
        weekly == calc_weekly_weight_change(frame)
    IN IF Len(df_cal) < 2 THEN Nothing
       ELSE IF ~weekly.has THEN Nothing
       ELSE Some(Maintenance(SumCalories(df_cal), Len(df_cal), weekly.v))

\* Mutant: the thresholds belong to "Losing" and "Gaining"
get_trend_direction_inclusive(change) ==
    IF ~change.has THEN "Insufficient Data"
    ELSE IF change.v <= -Threshold THEN "Losing"
    ELSE IF change.v >= Threshold THEN "Gaining"
    ELSE "Maintaining"

\* get_trend_direction(weekly_change)
get_trend_direction(change) ==
    IF ~change.has THEN "Insufficient Data"
    ELSE IF change.v < -Threshold THEN "Losing"
    ELSE IF change.v > Threshold THEN "Gaining"
    ELSE "Maintaining"

RECURSIVE Roll(_, _, _, _, _, _)
\* pandas' rolling mean from index i on: the value leaving the window is
\* taken off the running sum, the value at i is added, and the mean is NaN
\* while the window holds fewer than minp values
Roll(frame, win, minp, i, sum, nobs) ==
    IF i > Len(frame) THEN <<>>
    ELSE LET leaves == i - win >= 1
             sum2 == (IF leaves THEN sum - frame[i - win].weight_lbs ELSE sum)
                         + frame[i].weight_lbs
             nobs2 == (IF leaves THEN nobs - 1 ELSE nobs) + 1
         IN <<IF nobs2 >= minp THEN [num |-> sum2, den |-> nobs2] ELSE NullMean>>
                \o Roll(frame, win, minp, i + 1, sum2, nobs2)

\* Mutant: rolling(window=window) with pandas' default min_periods = window
calc_rolling_average_default(frame, win) == Roll(frame, win, win, 1, 0, 0)

\* calc_rolling_average(df, window)
calc_rolling_average(frame, win) == Roll(frame, win, MinPeriods, 1, 0, 0)

\* resample("W"): a week runs Monday to Sunday; day 0 is a Monday
WeekOf(date) == date \div DaysPerWeek

\* One bin of resample("W").agg(mean): NaN when the week has no entry
Bin(frame, week) ==
    LET inWeek == SelectSeq(frame, LAMBDA e : WeekOf(e.date) = week)
    IN IF inWeek = <<>>
          THEN [week |-> week, calories |-> NullMean, weight_lbs |-> NullMean]
          ELSE [week |-> week,
                calories |-> [num |-> SumCalories(inWeek), den |-> Len(inWeek)],
                weight_lbs |-> [num |-> SumWeight(inWeek), den |-> Len(inWeek)]]

\* df.resample("W").agg(...): one bin per week from the first entry's week to
\* the last entry's
resample(frame) ==
    LET firstWeek == WeekOf(frame[1].date)
        lastWeek == WeekOf(frame[Len(frame)].date)
    IN [j \in 1..(lastWeek - firstWeek + 1) |-> Bin(frame, firstWeek + j - 1)]

\* a - b for two means
MeanMinus(a, b) == [num |-> a.num * b.den - b.num * a.den, den |-> a.den * b.den]

\* weekly["weight_lbs"].diff(): the first row has no predecessor
diff(weekly) ==
    [j \in 1..Len(weekly) |->
        [week |-> weekly[j].week, calories |-> weekly[j].calories,
         weight_lbs |-> weekly[j].weight_lbs,
         weight_change |-> IF j = 1 THEN NullMean
                           ELSE MeanMinus(weekly[j].weight_lbs,
                                          weekly[j - 1].weight_lbs)]]

\* Mutant: diff().fillna(0), the first row stays with a change of 0
diff_keep(weekly) ==
    [j \in 1..Len(weekly) |->
        [week |-> weekly[j].week, calories |-> weekly[j].calories,
         weight_lbs |-> weekly[j].weight_lbs,
         weight_change |-> IF j = 1 THEN [num |-> 0, den |-> 1]
                           ELSE MeanMinus(weekly[j].weight_lbs,
                                          weekly[j - 1].weight_lbs)]]

NoFrame == [has |-> FALSE, v |-> <<>>]

\* calc_calorie_vs_weight_data up to the first weekly.dropna(): the weeks
\* that hold a calorie-bearing entry, with their means
WeeklyMeans(frame) ==
    LET cal == sort_values(dropna(frame))
    IN IF Len(cal) < MinEntries THEN NoFrame
       ELSE LET weekly == SelectSeq(resample(cal),
                                    LAMBDA b : b.calories # NullMean
                                               /\ b.weight_lbs # NullMean)
            IN IF Len(weekly) < MinWeeks THEN NoFrame
               ELSE [has |-> TRUE, v |-> weekly]

\* The second weekly.dropna() and the length test behind it
DropUnchanged(weekly) ==
    LET changed == SelectSeq(weekly, LAMBDA b : b.weight_change # NullMean)
    IN IF Len(changed) < MinWeeks THEN NoFrame
       ELSE [has |-> TRUE, v |-> changed]

\* Mutant: the first week is returned too
calc_calorie_vs_weight_data_keep(frame) ==
    IF ~WeeklyMeans(frame).has THEN NoFrame
    ELSE DropUnchanged(diff_keep(WeeklyMeans(frame).v))

\* calc_calorie_vs_weight_data(df)
calc_calorie_vs_weight_data(frame) ==
    IF ~WeeklyMeans(frame).has THEN NoFrame
    ELSE DropUnchanged(diff(WeeklyMeans(frame).v))

\* The store is not part of the analysis
StoreIdle == StoreInit

Apply(fn, value) ==
    /\ result.fn = "none"
    /\ result' = [fn |-> fn, value |-> value]
    /\ UNCHANGED <<df, window, weekly_change>>
    /\ UNCHANGED storeVars

(***************************************************************************)
(* calc_weekly_weight_change on series given in any order                  *)
(***************************************************************************)
\* Dates a few days apart, a week apart and MaxSpan days apart
ChangeDates == (0..MaxNear) \cup {DaysPerWeek, MaxSpan}

ChangeEntries == [date : ChangeDates, weight_lbs : {148, 150}, calories : {None}]

ChangeInit ==
    /\ StoreIdle
    /\ \E n \in 0..MaxLen : df \in [1..n -> ChangeEntries]
    /\ window = 1
    /\ weekly_change = Nothing
    /\ result = NoResult

CalcWeeklyWeightChange ==
    Apply("calc_weekly_weight_change", calc_weekly_weight_change(df))

SpecChange == ChangeInit /\ [][CalcWeeklyWeightChange]_vars

Dates(frame) == {frame[i].date : i \in 1..Len(frame)}

Earliest(frame) == CHOOSE d \in Dates(frame) : \A o \in Dates(frame) : d <= o

Latest(frame) == CHOOSE d \in Dates(frame) : \A o \in Dates(frame) : d >= o

\* v (in 1/10000 lb) is a multiple of 0.01 lb no further than 0.005 lb from
\* change / (days / 7)
IsWeeklyRate(v, change, days) ==
    /\ v % Hundredth = 0
    /\ LET err == v * days - change * DaysPerWeek * PerPound
       IN 2 * (IF err < 0 THEN -err ELSE err) <= Hundredth * days

\* value is what the claim gives for the weekly change of frame
IsWeeklyChangeOf(value, frame) ==
    /\ value.has <=> Len(frame) >= 2
    /\ Len(frame) >= 2 =>
          LET span == Latest(frame) - Earliest(frame)
          IN IF span = 0 THEN value.v = 0
             ELSE \E i \in 1..Len(frame) : \E j \in 1..Len(frame) :
                     /\ frame[i].date = Earliest(frame)
                     /\ frame[j].date = Latest(frame)
                     /\ IsWeeklyRate(value.v, frame[j].weight_lbs - frame[i].weight_lbs,
                                     span)

RECURSIVE SeriesOn(_, _, _)
\* The series with an entry on each day of days, by date
SeriesOn(days, weight, calories) ==
    IF days = {} THEN <<>>
    ELSE LET d == CHOOSE x \in days : \A o \in days : x <= o
         IN <<[date |-> d, weight_lbs |-> weight[d], calories |-> calories[d]]>>
                \o SeriesOn(days \ {d}, weight, calories)

MaintenanceInit ==
    /\ StoreIdle
    /\ \E days \in SUBSET (0..MaxGap) :
          /\ Cardinality(days) <= MaxLen
          /\ \E weight \in [days -> {148, 150}] :
             \E calories \in [days -> {None, 2000, 2001}] :
                 df = SeriesOn(days, weight, calories)
    /\ window = 1
    /\ weekly_change = Nothing
    /\ result = NoResult

EstimateMaintenanceCalories ==
    Apply("estimate_maintenance_calories", estimate_maintenance_calories(df))

SpecMaintenance == MaintenanceInit /\ [][EstimateMaintenanceCalories]_vars

\* The entries of frame that carry calories
WithCalories(frame) == {i \in 1..Len(frame) : frame[i].calories # None}

RECURSIVE SumOfCalories(_, _)
SumOfCalories(frame, indices) ==
    IF indices = {} THEN 0
    ELSE LET i == CHOOSE x \in indices : TRUE
         IN frame[i].calories + SumOfCalories(frame, indices \ {i})

\* The multiples of 0.01 lb next to a rate between two entries of frame
RatesNear(frame) ==
    LET span == Latest(frame) - Earliest(frame)
    IN {Some(0)} \cup
       {Some(Hundredth * (((frame[j].weight_lbs - frame[i].weight_lbs)
                               * DaysPerWeek * 100) \div span + k)) :
            i \in {x \in 1..Len(frame) : span > 0},
            j \in 1..Len(frame), k \in {0, 1}}

\* m is the integer nearest to mean_calories - weekly * 3500 / 7, weekly (in
\* 1/10000 lb) being the claimed weekly change of the whole series
IsMaintenanceOf(m, frame) ==
    \E weekly \in RatesNear(frame) :
        /\ IsWeeklyChangeOf(weekly, frame)
        /\ LET n == Cardinality(WithCalories(frame))
               err == (m * n - SumOfCalories(frame, WithCalories(frame)))
                          * DaysPerWeek * PerPound
                      + weekly.v * KcalPerPound * n
           IN 2 * (IF err < 0 THEN -err ELSE err) <= n * DaysPerWeek * PerPound

\* C6: estimate_maintenance_calories returns no value exactly when fewer than
\* 2 entries carry calories; otherwise the integer nearest to mean_calories -
\* weeklyChange * 3500 / 7, the mean taken over the calorie-bearing entries
\* and weeklyChange over the whole series.
MaintenanceIsMeanLessDailySurplus ==
    result.fn = "estimate_maintenance_calories" =>
        /\ result.value.has <=> Cardinality(WithCalories(df)) >= 2
        /\ result.value.has => IsMaintenanceOf(result.value.v, df)

\* C6 witness: a value was returned for a series whose first entry carries no
\* calories and whose weekly change differs from that of its calorie-bearing
\* entries.
MaintenanceWithMissingCalories ==
    /\ result.fn = "estimate_maintenance_calories"
    /\ result.value.has
    /\ df[1].calories = None
    /\ calc_weekly_weight_change(df) # calc_weekly_weight_change(dropna(df))

(***************************************************************************)
(* get_trend_direction on any weekly change near the thresholds            *)
(***************************************************************************)
TrendInputs == (-MaxChange..MaxChange) \cup {-PerPound, PerPound}

TrendInit ==
    /\ StoreIdle
    /\ df = <<>>
    /\ window = 1
    /\ weekly_change \in {Nothing} \cup {Some(x) : x \in TrendInputs}
    /\ result = NoResult

GetTrendDirection ==
    Apply("get_trend_direction", get_trend_direction(weekly_change))

SpecTrend == TrendInit /\ [][GetTrendDirection]_vars

\* C8: get_trend_direction returns "Insufficient Data" for no value, "Losing"
\* exactly below -0.1, "Gaining" exactly above 0.1 and "Maintaining" for every
\* other value, -0.1 and 0.1 included.
TrendDirectionThresholds ==
    result.fn = "get_trend_direction" =>
        /\ result.value = "Insufficient Data" <=> ~weekly_change.has
        /\ weekly_change.has =>
              /\ result.value = "Losing" <=> 10 * weekly_change.v < -PerPound
              /\ result.value = "Gaining" <=> 10 * weekly_change.v > PerPound
              /\ result.value = "Maintaining" <=>
                     (-PerPound <= 10 * weekly_change.v
                          /\ 10 * weekly_change.v <= PerPound)
        /\ weekly_change = Some(-PerPound) => result.value = "Losing"
        /\ weekly_change = Some(500) => result.value = "Maintaining"
        /\ weekly_change = Some(1001) => result.value = "Gaining"

\* C8 witness: exactly 0.1 lb a week was classified "Maintaining".
TrendAtThreshold ==
    /\ result.fn = "get_trend_direction"
    /\ weekly_change = Some(1000)
    /\ result.value = "Maintaining"

(***************************************************************************)
(* calc_rolling_average on short series                                    *)
(***************************************************************************)
RollingInit ==
    /\ StoreIdle
    /\ \E n \in 0..MaxLen : \E weight \in [1..n -> {148, 150, 151}] :
          df = [i \in 1..n |-> [date |-> i - 1, weight_lbs |-> weight[i],
                                calories |-> None]]
    /\ window \in 1..MaxWindow
    /\ weekly_change = Nothing
    /\ result = NoResult

CalcRollingAverage ==
    Apply("calc_rolling_average", calc_rolling_average(df, window))

SpecRolling == RollingInit /\ [][CalcRollingAverage]_vars

RECURSIVE SumOfWeights(_, _, _)
\* weight of frame[from] + ... + weight of frame[to]
SumOfWeights(frame, from, to) ==
    IF from > to THEN 0
    ELSE frame[from].weight_lbs + SumOfWeights(frame, from + 1, to)

\* C9: calc_rolling_average returns one element per entry, none of them null;
\* the element at position i (from 1) is the mean weight of the last
\* min(i, window) entries ending at i.
RollingAverageIsTrailingMean ==
    result.fn = "calc_rolling_average" =>
        /\ Len(result.value) = Len(df)
        /\ \A i \in 1..Len(df) :
              LET k == IF i < window THEN i ELSE window
              IN /\ result.value[i] # NullMean
                 /\ result.value[i].den > 0
                 /\ result.value[i].num * k
                        = SumOfWeights(df, i - k + 1, i) * result.value[i].den

\* C9 witness: window 7 on a 3-point series of differing weights gave the
\* cumulative means.
RollingOnThreePoints ==
    /\ result.fn = "calc_rolling_average"
    /\ window = 7
    /\ Len(df) = 3
    /\ df[1].weight_lbs # df[2].weight_lbs
    /\ df[2].weight_lbs # df[3].weight_lbs
    /\ \A i \in 1..3 : result.value[i].num = SumOfWeights(df, 1, i)
                           /\ result.value[i].den = i

(***************************************************************************)
(* calc_calorie_vs_weight_data on series with an entry every day, of which *)
(* the first few of each week carry calories                               *)
(***************************************************************************)
WeekCounts == {0, 1, 6, 7}

ScatterInit ==
    /\ StoreIdle
    /\ \E count \in [0..MaxWeek -> WeekCounts] : \E base \in [0..MaxWeek -> {148, 150}] :
          df = [i \in 1..(DaysPerWeek * (MaxWeek + 1)) |->
                  LET week == (i - 1) \div DaysPerWeek
                      day == (i - 1) % DaysPerWeek
                  IN [date |-> i - 1,
                      weight_lbs |-> base[week] + (day % 2),
                      calories |-> IF day < count[week] THEN 2000 + 100 * week
                                                        ELSE None]]
    /\ window = 1
    /\ weekly_change = Nothing
    /\ result = NoResult

CalcCalorieVsWeightData ==
    Apply("calc_calorie_vs_weight_data", calc_calorie_vs_weight_data(df))

SpecScatter == ScatterInit /\ [][CalcCalorieVsWeightData]_vars

\* The weeks in which an entry of frame carries calories
OccupiedWeeks(frame) == {WeekOf(frame[i].date) : i \in WithCalories(frame)}

RECURSIVE SumOfWeightsAt(_, _)
SumOfWeightsAt(frame, indices) ==
    IF indices = {} THEN 0
    ELSE LET i == CHOOSE x \in indices : TRUE
         IN frame[i].weight_lbs + SumOfWeightsAt(frame, indices \ {i})

\* The mean weight of the calorie-bearing entries of a week
MeanWeightIn(frame, week) ==
    LET inWeek == {i \in WithCalories(frame) : WeekOf(frame[i].date) = week}
    IN [num |-> SumOfWeightsAt(frame, inWeek), den |-> Cardinality(inWeek)]

\* The row's weight_change is its week's mean weight less the mean weight of
\* the retained week before it
ChangeFromPreviousWeek(row, frame) ==
    /\ row.week \in OccupiedWeeks(frame)
    /\ \E prev \in OccupiedWeeks(frame) :
          /\ prev < row.week
          /\ \A o \in OccupiedWeeks(frame) : o < row.week => o <= prev
          /\ LET now == MeanWeightIn(frame, row.week)
                 before == MeanWeightIn(frame, prev)
             IN /\ row.weight_change.den # 0
                /\ row.weight_change.num * (now.den * before.den)
                       = (now.num * before.den - before.num * now.den)
                             * row.weight_change.den

\* At least 2 weekly rows, each with its change from the retained week before,
\* none for the first week
WeeklyRowsAsClaimed(value, frame) ==
    /\ value.has
    /\ Len(value.v) >= 2
    /\ \A j \in 1..Len(value.v) :
          /\ ChangeFromPreviousWeek(value.v[j], frame)
          /\ \E o \in OccupiedWeeks(frame) : o < value.v[j].week

\* The weeks from the first to the last calorie-bearing entry
WeeksSpanned(frame) ==
    IF WithCalories(frame) = {} THEN 0
    ELSE LET weeks == OccupiedWeeks(frame)
             first == CHOOSE w \in weeks : \A o \in weeks : w <= o
             final == CHOOSE w \in weeks : \A o \in weeks : w >= o
         IN final - first + 1

\* C7 (as claimed): fewer than 14 calorie-bearing entries give "insufficient";
\* 14 or more that span 3 or more weeks give at least 2 weekly rows, each with
\* its change from the retained week before, the first week dropped.
ScatterRowsWhenSpanningThreeWeeks ==
    result.fn = "calc_calorie_vs_weight_data" =>
        /\ Cardinality(WithCalories(df)) < MinEntries => ~result.value.has
        /\ (Cardinality(WithCalories(df)) >= MinEntries /\ WeeksSpanned(df) >= 3)
               => WeeklyRowsAsClaimed(result.value, df)

\* C7 (amended): as claimed, for 14 or more calorie-bearing entries that lie in
\* 3 or more different calendar weeks.
ScatterRowsWhenInThreeWeeks ==
    result.fn = "calc_calorie_vs_weight_data" =>
        /\ Cardinality(WithCalories(df)) < MinEntries => ~result.value.has
        /\ (Cardinality(WithCalories(df)) >= MinEntries
                /\ Cardinality(OccupiedWeeks(df)) >= 3)
               => WeeklyRowsAsClaimed(result.value, df)

\* C7 witness: rows were returned for entries in 3 weeks with an empty week
\* between them, so that a row's change is taken across the gap.
ScatterRowsAcrossGap ==
    /\ result.fn = "calc_calorie_vs_weight_data"
    /\ result.value.has
    /\ Cardinality(WithCalories(df)) = MinEntries
    /\ Cardinality(OccupiedWeeks(df)) = 3
    /\ \E j \in 1..Len(result.value.v) :
          /\ (result.value.v[j].week - 1) \notin OccupiedWeeks(df)
          /\ result.value.v[j].weight_change.num # 0

====
